---------------------------- MODULE Spec2Model ----------------------------
(***************************************************************************)
(* mdglasses: the navigation and state-synchronisation engine.             *)
(*                                                                         *)
(*   NavigationHistory   src/unnamed/part_003 (navigationHistory.ts)       *)
(*   document loader     src/src/features/navigation/documentLoader.ts     *)
(*   watch listener      src/src/main.ts (setupWatchListener)              *)
(*   tree panel          src/src/main.ts (renderTree, renderTreeSelection) *)
(*   path utilities      src/unnamed/part_009 (pathUtils.ts)               *)
(*                                                                         *)
(* Strings of the program that the code takes apart (paths) are sequences  *)
(* of one-character strings, so that replace/startsWith/split are computed *)
(* and not looked up.  null is the one-element sequence Null, which is no  *)
(* path.  HistoryEntry.timestamp (Date.now()) is written and never read by *)
(* the program; entries are modelled as (path, mode).                      *)
(***************************************************************************)
EXTENDS Integers, Sequences, FiniteSets, TLC

VARIABLES
  history,        \* NavigationHistory.history: sequence of [path, mode]
  currentIndex,   \* NavigationHistory.currentIndex, 0-based, -1 when empty
  call,           \* the last direct call of the NavigationHistory API: its
                  \* arguments, the (history, currentIndex) it was made
                  \* in and what it returned: [op, path, mode, h0, i0, ret]
  state,          \* AppState: [mode, currentPath, currentBaseDir, wikiRoot]
  tasks,          \* the asynchronous operations in flight, by slot
  treePanel,      \* #tree-panel: [hidden, controls, search, showHidden,
                  \* items, active]
  currentTree,    \* treePanel.ts currentTree: the folder whose tree is held
  currentActivePath, \* treePanel.ts currentActivePath
  lastSelected,   \* localStorage["mdglasses-tree-last-selected"]
  titleEl,        \* #title textContent
  breadcrumb,     \* #breadcrumb: [path, wikiRoot] it was built from
  contentEl,      \* #content: the document whose html it holds
  btn,            \* [back, forward]: the disabled flags of the two buttons
  watched,        \* the paths registered with watchPaths
  errors,         \* the error notifications shown so far (by message)
  done,           \* the operation that returned last, and how
  nOps,           \* operations started so far
  oneAtATime,     \* whether operations are started only when none is in flight
  calc            \* the last direct call of a tree function: its arguments
                  \* and what it returned

hvars == <<history, currentIndex, call>>
cvars == <<state, tasks, treePanel, currentTree, currentActivePath,
           lastSelected, titleEl, breadcrumb, contentEl, btn, watched,
           errors, done, nOps, oneAtATime, calc>>
vars == <<history, currentIndex, call, state, tasks, treePanel, currentTree,
          currentActivePath, lastSelected, titleEl, breadcrumb, contentEl,
          btn, watched, errors, done, nOps, oneAtATime, calc>>

(***************************************************************************)
(* Values                                                                  *)
(***************************************************************************)
Null == <<"null">>

\* An optional HistoryEntry: null, or the entry.
Absent == <<>>
Some(e) == <<e>>

\* "/d/a", "/d/b": two markdown files; "/d" is their directory.
F_a == <<"/", "d", "/", "a">>
F_b == <<"/", "d", "/", "b">>
D_d == <<"/", "d">>
\* "/v": a folder with the notes "/v/x" and "/v/y".
R_v == <<"/", "v">>
N_x == <<"/", "v", "/", "x">>
N_y == <<"/", "v", "/", "y">>
\* "/w/z": a note of another folder, "/w".
W_z == <<"/", "w", "/", "z">>

Modes == {"file", "wiki"}

Entry(path, mode) == [path |-> path, mode |-> mode]

(***************************************************************************)
(* NavigationHistory                                                       *)
(***************************************************************************)
MAX_HISTORY_SIZE == 50

\* history[i] of the code (0-based), undefined outside the array.
EntryAt(h, i) == IF i + 1 \in DOMAIN h THEN Some(h[i + 1]) ELSE Absent

\* addEntry, lines 15-17: drop what follows the cursor.
Truncate_Keep(h, i) == h
Truncate(h, i) == IF i < Len(h) - 1 THEN SubSeq(h, 1, i + 1) ELSE h

\* addEntry, lines 20-24: the entry at the cursor is (path, mode).
IsDuplicate_PathOnly(h, i, path, mode) ==
  /\ i >= 0
  /\ EntryAt(h, i) # Absent
  /\ EntryAt(h, i)[1].path = path
IsDuplicate_Previous(h, i, path, mode) ==
  /\ i >= 1
  /\ EntryAt(h, i - 1) # Absent
  /\ EntryAt(h, i - 1)[1].path = path
  /\ EntryAt(h, i - 1)[1].mode = mode
IsDuplicate(h, i, path, mode) ==
  /\ i >= 0
  /\ EntryAt(h, i) # Absent
  /\ EntryAt(h, i)[1].path = path
  /\ EntryAt(h, i)[1].mode = mode

\* addEntry, lines 36-41: after the push; h is the array with the new entry.
LimitSize_NoShift(h, i) == [history |-> h, currentIndex |-> Len(h) - 1]
LimitSize(h, i) ==
  IF Len(h) > MAX_HISTORY_SIZE
    THEN [history |-> Tail(h), currentIndex |-> i]
    ELSE [history |-> h, currentIndex |-> Len(h) - 1]

\* addEntry(path, mode): the new (history, currentIndex).
AddEntry_DuplicateFirst(h, i, path, mode) ==
  IF IsDuplicate(h, i, path, mode)
    THEN [history |-> h, currentIndex |-> i]
    ELSE LimitSize(Append(Truncate(h, i), Entry(path, mode)), i)
AddEntry(h, i, path, mode) ==
  LET h1 == Truncate(h, i) IN
  IF IsDuplicate(h1, i, path, mode)
    THEN [history |-> h1, currentIndex |-> i]
    ELSE LimitSize(Append(h1, Entry(path, mode)), i)

CanGoBack_FromFirst(h, i) == i >= 0
CanGoBack(h, i) == i > 0

CanGoForward_PastTail(h, i) == i < Len(h)
CanGoForward(h, i) == i < Len(h) - 1

\* goBack(): the new cursor and the returned entry (null when illegal).
GoBack_NoMove(h, i) ==
  IF ~CanGoBack(h, i)
    THEN [currentIndex |-> i, ret |-> Absent]
    ELSE [currentIndex |-> i, ret |-> EntryAt(h, i - 1)]
GoBack(h, i) ==
  IF ~CanGoBack(h, i)
    THEN [currentIndex |-> i, ret |-> Absent]
    ELSE [currentIndex |-> i - 1, ret |-> EntryAt(h, i - 1)]

GoForward(h, i) ==
  IF ~CanGoForward(h, i)
    THEN [currentIndex |-> i, ret |-> Absent]
    ELSE [currentIndex |-> i + 1, ret |-> EntryAt(h, i + 1)]

GetCurrent(h, i) ==
  IF i < 0 \/ i >= Len(h) THEN Absent ELSE Some(h[i + 1])

Call(op, path, mode, ret) ==
  [op |-> op, path |-> path, mode |-> mode,
   h0 |-> history, i0 |-> currentIndex, ret |-> ret]
NoCall == [op |-> "none", path |-> Null, mode |-> "none",
           h0 |-> <<>>, i0 |-> -1, ret |-> Absent]

HistoryInit ==
  /\ history = <<>>
  /\ currentIndex = -1
  /\ call = NoCall

(***************************************************************************)
(* Path utilities                                                          *)
(***************************************************************************)
IsSep(c) == c \in {"/", "\\"}

\* s.replace(/\\/g, "/")
ReplaceBackslash(s) ==
  [k \in 1..Len(s) |-> IF s[k] = "\\" THEN "/" ELSE s[k]]

\* normalizeBaseDir(dir)
NormalizeBaseDir_NoRoot(dir) ==
  LET s == ReplaceBackslash(dir)
  IN IF Len(s) > 0 /\ s[Len(s)] = "/" THEN SubSeq(s, 1, Len(s) - 1) ELSE s
NormalizeBaseDir(dir) ==
  LET s == ReplaceBackslash(dir)
      t == IF Len(s) > 0 /\ s[Len(s)] = "/" THEN SubSeq(s, 1, Len(s) - 1) ELSE s
  IN IF Len(t) = 0 THEN <<"/">> ELSE t

\* normalizeWatchedPath(path)
NormalizeWatchedPath(path) == ReplaceBackslash(path)

\* s.startsWith(prefix)
StartsWith(s, prefix) ==
  /\ Len(prefix) <= Len(s)
  /\ SubSeq(s, 1, Len(prefix)) = prefix

\* s.split(/[/\\]/): the segments between separators, empty ones included.
RECURSIVE SplitFrom(_, _, _)
SplitFrom(s, k, cur) ==
  IF k > Len(s) THEN <<cur>>
  ELSE IF IsSep(s[k]) THEN <<cur>> \o SplitFrom(s, k + 1, <<>>)
  ELSE SplitFrom(s, k + 1, Append(cur, s[k]))
Split(s) == SplitFrom(s, 1, <<>>)

\* getDisplayName(path): path.split(/[/\\]/).pop() ?? ""
GetDisplayName(path) == LET p == Split(path) IN p[Len(p)]

\* wikiRoot?.split(/[/\\]/).filter((p) => p).pop() || "Pasta"
Pasta == <<"Pasta">>
RootName(wikiRoot) ==
  IF wikiRoot = Null THEN Pasta
  ELSE LET p == SelectSeq(Split(wikiRoot), LAMBDA x : Len(x) > 0)
       IN IF Len(p) = 0 THEN Pasta ELSE p[Len(p)]

\* out.join("/")
RECURSIVE Join(_)
Join(parts) ==
  IF Len(parts) = 0 THEN <<>>
  ELSE IF Len(parts) = 1 THEN parts[1]
  ELSE parts[1] \o <<"/">> \o Join(Tail(parts))

\* resolvePath lines 10-14: ".." pops (nothing, from an empty out), the rest
\* is pushed.
RECURSIVE PopPush(_, _)
PopPush_KeepAtRoot(parts, out) ==
  IF Len(parts) = 0 THEN out
  ELSE IF parts[1] = <<".", ".">> /\ Len(out) > 0
    THEN PopPush(Tail(parts), SubSeq(out, 1, Len(out) - 1))
    ELSE PopPush(Tail(parts), Append(out, parts[1]))
PopPush(parts, out) ==
  IF Len(parts) = 0 THEN out
  ELSE IF parts[1] = <<".", ".">>
    THEN PopPush(Tail(parts),
                 IF Len(out) = 0 THEN out ELSE SubSeq(out, 1, Len(out) - 1))
    ELSE PopPush(Tail(parts), Append(out, parts[1]))

\* resolvePath(baseDir, relative).  base and rel hold no backslash when they
\* are split, so that Split is split("/") on them.
ResolvePath_NoDotDot(baseDir, relative) ==
  LET base == ReplaceBackslash(baseDir)
      rel == ReplaceBackslash(relative)
      parts == SelectSeq(Split(base), LAMBDA p : Len(p) > 0)
                 \o SelectSeq(Split(rel), LAMBDA p : p # <<".">>)
  IN IF StartsWith(rel, <<"/">>) THEN rel ELSE <<"/">> \o Join(parts)
ResolvePath_DropEmpty(baseDir, relative) ==
  LET base == ReplaceBackslash(baseDir)
      rel == ReplaceBackslash(relative)
      parts == SelectSeq(Split(base), LAMBDA p : Len(p) > 0)
                 \o SelectSeq(Split(rel), LAMBDA p : Len(p) > 0 /\ p # <<".">>)
  IN IF StartsWith(rel, <<"/">>) THEN rel
     ELSE <<"/">> \o Join(PopPush(parts, <<>>))
ResolvePath(baseDir, relative) ==
  LET base == ReplaceBackslash(baseDir)
      rel == ReplaceBackslash(relative)
      parts == SelectSeq(Split(base), LAMBDA p : Len(p) > 0)
                 \o SelectSeq(Split(rel), LAMBDA p : p # <<".">>)
  IN IF StartsWith(rel, <<"/">>) THEN rel
     ELSE <<"/">> \o Join(PopPush(parts, <<>>))

\* decodeURIComponent(s), for the escapes %20 and %2E; any other "%" makes it
\* throw URIError.
URIError == <<"URIError">>
RECURSIVE DecodeURIComponent(_)
DecodeURIComponent(s) ==
  IF Len(s) = 0 THEN <<>>
  ELSE IF s[1] # "%"
    THEN LET rest == DecodeURIComponent(Tail(s)) IN
         IF rest = URIError THEN URIError ELSE <<s[1]>> \o rest
  ELSE IF Len(s) >= 3 /\ SubSeq(s, 2, 3) \in {<<"2", "0">>, <<"2", "E">>}
    THEN LET rest == DecodeURIComponent(SubSeq(s, 4, Len(s))) IN
         IF rest = URIError THEN URIError
         ELSE (IF s[3] = "0" THEN <<" ">> ELSE <<".">>) \o rest
  ELSE URIError

(***************************************************************************)
(* The collaborators: renderer, folder lister                              *)
(***************************************************************************)
\* OpenMarkdownFileResult.base_dir of a file: the directory that holds it.
RECURSIVE LastSepIndex(_, _)
LastSepIndex(s, k) ==
  IF k = 0 THEN 0 ELSE IF IsSep(s[k]) THEN k ELSE LastSepIndex(s, k - 1)
BaseDirOf(path) == SubSeq(path, 1, LastSepIndex(path, Len(path)) - 1)

\* OpenWikiFolderResult.tree of a folder, as the paths of its notes, and the
\* note the lister offers as initial_note_path when it offers one.
TreeNotes(folder) == IF NormalizeBaseDir(folder) = R_v THEN {N_x, N_y} ELSE {}
InitialNote(folder) == N_x

(***************************************************************************)
(* The tree panel's filters                                                *)
(***************************************************************************)
\* A TreeNode; the path of a node is not read by the filters.
Node(name, children) ==
  [name |-> name, path |-> <<"/">> \o name, children |-> children]

\* c.toLowerCase(), for the letters of the names and queries used here.
Lower(c) ==
  CASE c = "A" -> "a"
    [] c = "B" -> "b"
    [] c = "C" -> "c"
    [] OTHER -> c

\* s.toLowerCase()
ToLowerCase_Identity(s) == s
ToLowerCase(s) == [k \in 1..Len(s) |-> Lower(s[k])]

\* s.includes(sub)
Includes(s, sub) ==
  \E i \in 1..(Len(s) - Len(sub) + 1) : SubSeq(s, i, i + Len(sub) - 1) = sub

\* s.trim(), for the white space " ".
Trim_Nothing(s) == s
RECURSIVE Trim(_)
Trim(s) ==
  IF Len(s) = 0 THEN s
  ELSE IF s[1] = " " THEN Trim(Tail(s))
  ELSE IF s[Len(s)] = " " THEN Trim(SubSeq(s, 1, Len(s) - 1))
  ELSE s

\* filterTree(tree, query): FilterFrom is the loop of lines 824-833 from the
\* k-th node on.
RECURSIVE FilterTree(_, _), FilterFrom(_, _, _)
FilterFrom(nodes, query, k) ==
  IF k > Len(nodes) THEN <<>>
  ELSE LET node == nodes[k]
           lowerQuery == ToLowerCase(query)
           matchesName == Includes(ToLowerCase(node.name), lowerQuery)
           filteredChildren == FilterTree(node.children, query)
       IN (IF matchesName \/ Len(filteredChildren) > 0
             THEN <<[node EXCEPT !.children = filteredChildren]>>
             ELSE <<>>) \o FilterFrom(nodes, query, k + 1)
FilterTree(nodes, query) ==
  IF Len(Trim(query)) = 0 THEN nodes ELSE FilterFrom(nodes, query, 1)

\* HIDE_PATTERNS, main.ts line 789.
HIDE_PATTERNS ==
  { <<".", "g", "i", "t">>,
    <<"n", "o", "d", "e", "_", "m", "o", "d", "u", "l", "e", "s">>,
    <<"t", "a", "r", "g", "e", "t">>,
    <<".", "n", "e", "x", "t">>,
    <<".", "v", "s", "c", "o", "d", "e">>,
    <<".", "i", "d", "e", "a">>,
    <<"d", "i", "s", "t">>,
    <<"b", "u", "i", "l", "d">>,
    <<".", "D", "S", "_", "S", "t", "o", "r", "e">> }

\* shouldHideNode(name, showHidden)
ShouldHideNode_ExactOnly(name, showHidden) ==
  IF showHidden THEN FALSE ELSE name \in HIDE_PATTERNS
ShouldHideNode(name, showHidden) ==
  IF showHidden THEN FALSE
  ELSE \E pattern \in HIDE_PATTERNS :
         name = pattern \/ StartsWith(name, pattern \o <<"/">>)

\* filterHiddenNodes(tree, showHidden): filter, then map over what is left.
RECURSIVE FilterHiddenNodes(_, _)
FilterHiddenNodes(nodes, showHidden) ==
  IF showHidden THEN nodes
  ELSE LET left == SelectSeq(nodes,
                     LAMBDA node : ~ShouldHideNode(node.name, showHidden))
       IN [k \in 1..Len(left) |->
             [left[k] EXCEPT
                !.children = FilterHiddenNodes(left[k].children, showHidden)]]

\* renderFilteredTree(query, showHidden), lines 839-840: the nodes that are
\* given to createTreeItem.
RenderFilteredTree(nodes, query, showHidden) ==
  FilterHiddenNodes(FilterTree(nodes, query), showHidden)

\* result.tree of openWikiFolder: the notes of the folder, as leaves.
WikiTree(folder) ==
  IF TreeNotes(folder) = {} THEN <<>>
  ELSE << [name |-> <<"x">>, path |-> N_x, children |-> <<>>],
          [name |-> <<"y">>, path |-> N_y, children |-> <<>>] >>

\* The data-path of the .tree-item elements createTreeItem makes of the nodes.
RECURSIVE PathsIn(_)
PathsIn(nodes) ==
  UNION {{nodes[k].path} \cup PathsIn(nodes[k].children) : k \in DOMAIN nodes}

\* renderFilteredTree(query, showHidden), lines 837-857: the container of the
\* panel is replaced by the items of the filtered currentTree, the one with
\* the path activePath being .active.
RenderFilteredItems(panel, folder, activePath, query, showHidden) ==
  LET shown == PathsIn(RenderFilteredTree(WikiTree(folder), query, showHidden))
  IN [panel EXCEPT !.items = shown,
                   !.active = {p \in shown : p = activePath}]

NoCalc ==
  [fn |-> "none", tree |-> <<>>, query |-> <<>>, showHidden |-> FALSE,
   out |-> <<>>]

(***************************************************************************)
(* Document loader state                                                   *)
(***************************************************************************)
AppState(mode, currentPath, currentBaseDir, wikiRoot) ==
  [mode |-> mode, currentPath |-> currentPath,
   currentBaseDir |-> currentBaseDir, wikiRoot |-> wikiRoot]

\* main.ts lines 36-41.
InitialState == AppState("file", Null, Null, Null)

TaskIds == {1, 2}

\* An operation in flight: the operation the user or the watcher started
\* (op), the await it is suspended at (pc), the arguments of the loadFile or
\* openWikiNote call it is in (path, watch, addToHistory), the folder of a
\* loadWiki (root); and, while no other operation has been in flight with it
\* (solo), the AppState it was started in (state0).
IdleTask ==
  [op |-> "none", pc |-> "idle", path |-> Null, root |-> Null,
   watch |-> FALSE, addToHistory |-> FALSE, solo |-> FALSE,
   state0 |-> InitialState]

Idle(t) == tasks[t].pc = "idle"
AllIdle == \A t \in TaskIds : Idle(t)

\* The slot a newly started operation takes.
FreeSlot(t) ==
  /\ Idle(t)
  /\ \A u \in TaskIds : Idle(u) => t <= u
  /\ oneAtATime => AllIdle

NoDone == [op |-> "none", ok |-> TRUE, found |-> FALSE, solo |-> FALSE,
           state0 |-> InitialState]

EmptyBreadcrumb == [path |-> Null, wikiRoot |-> Null]
NoContent == <<>>

ControllerInit ==
  /\ state = InitialState
  /\ tasks = [t \in TaskIds |-> IdleTask]
  /\ treePanel = [hidden |-> TRUE, controls |-> TRUE, search |-> <<>>,
                  showHidden |-> FALSE, items |-> {}, active |-> {}]
  /\ currentTree = Null
  /\ currentActivePath = Null
  /\ lastSelected \in {Null, W_z}   \* what an earlier session left
  /\ titleEl = <<>>
  /\ breadcrumb = EmptyBreadcrumb
  /\ contentEl = NoContent
  /\ btn = [back |-> TRUE, forward |-> TRUE]
  /\ watched = {}
  /\ errors = {}
  /\ done = NoDone
  /\ nOps = 0

Init == HistoryInit /\ ControllerInit /\ oneAtATime = FALSE /\ calc = NoCalc
InitAlone ==
  HistoryInit /\ ControllerInit /\ oneAtATime = TRUE /\ calc = NoCalc

\* updateNavigationButtons(ctx)
UpdateNavigationButtons_BackOnly(h, i) ==
  [back |-> ~CanGoBack(h, i), forward |-> btn.forward]
UpdateNavigationButtons(h, i) ==
  [back |-> ~CanGoBack(h, i), forward |-> ~CanGoForward(h, i)]

\* renderTree lines 873-876: searchInput?.value || "" and
\* hideToggle?.checked ?? false, of the controls found in the panel.
SearchValue(panel) == IF panel.controls THEN panel.search ELSE <<>>
HideToggleChecked(panel) == IF panel.controls THEN panel.showHidden ELSE FALSE

\* renderTreeSelection(treePanel, path): .active on the items with that path.
RenderTreeSelection(panel, path) ==
  [panel EXCEPT !.active = {p \in panel.items : p = path}]

\* What the caller of a rejected operation shows: the open dialog handlers
\* and the back/forward click handlers show an error, a tree click logs to
\* the console, the link click handler shows an error, the watch listener
\* swallows.
CallerError(op) ==
  CASE op = "loadFile" -> {"abrir"}
    [] op = "loadWiki" -> {"abrir"}
    [] op = "navigateBack" -> {"voltar"}
    [] op = "navigateForward" -> {"avancar"}
    [] op = "openRelativeLink" -> {"link"}
    [] OTHER -> {}

\* Operations that may be started: MaxOps in all when they may overlap,
\* MaxOpsAlone when they are started one at a time.
MaxOps == 3
MaxOpsAlone == 4
OpsBound == IF oneAtATime THEN MaxOpsAlone ELSE MaxOps

\* A started operation suspended at its first await.
Spawn(t, op, pc, path, root, watch, addToHistory) ==
  /\ nOps' = nOps + 1
  /\ tasks' = [u \in TaskIds |->
       IF u = t
         THEN [op |-> op, pc |-> pc, path |-> path, root |-> root,
               watch |-> watch, addToHistory |-> addToHistory,
               solo |-> AllIdle,
               state0 |-> IF AllIdle THEN state ELSE InitialState]
         ELSE [tasks[u] EXCEPT !.solo = FALSE, !.state0 = InitialState]]

\* An operation that returned at once, without suspending.
ReturnAtOnce(op, found) ==
  /\ nOps' = nOps + 1
  /\ done' = [op |-> op, ok |-> TRUE, found |-> found, solo |-> AllIdle,
              state0 |-> IF AllIdle THEN state ELSE InitialState]
  /\ tasks' = [u \in TaskIds |->
       [tasks[u] EXCEPT !.solo = FALSE, !.state0 = InitialState]]

\* The operation of slot t returns (ok) or rejects (~ok) to its caller.
Return(t, ok) ==
  /\ tasks' = [tasks EXCEPT ![t] = IdleTask]
  /\ done' = [op |-> tasks[t].op, ok |-> ok, found |-> TRUE,
              solo |-> tasks[t].solo, state0 |-> tasks[t].state0]

\* What the user opens, and what the watcher reports.
Files == {F_a, F_b}
Folders == {R_v}
\* "\v": the folder as a watcher reports it with backslashes.
R_v_bs == <<"\\", "v">>
WatchPayloads == {<<>>, <<F_a>>, <<N_x>>, <<R_v>>, <<R_v_bs>>, <<F_b, N_x>>}

fixed == <<call, oneAtATime, calc>>
tree == <<treePanel, currentTree, currentActivePath, lastSelected>>
page == <<titleEl, breadcrumb, contentEl>>
hist == <<history, currentIndex, btn>>

\* navigationHistory.addEntry(path, mode); updateNavigationButtons(ctx),
\* under options.addToHistory !== false.
RecordHistory_Never(addToHistory, path, mode) ==
  UNCHANGED <<history, currentIndex, btn>>
RecordHistory(addToHistory, path, mode) ==
  IF addToHistory
    THEN LET r == AddEntry(history, currentIndex, path, mode) IN
         /\ history' = r.history
         /\ currentIndex' = r.currentIndex
         /\ btn' = UpdateNavigationButtons(r.history, r.currentIndex)
    ELSE UNCHANGED <<history, currentIndex, btn>>

\* The catch block of an operation: showError, then rethrow to the caller.
Reject(t, message) ==
  /\ errors' = errors \cup {message} \cup CallerError(tasks[t].op)
  /\ Return(t, FALSE)

(***************************************************************************)
(* loadFile(path, {watch, addToHistory})                                   *)
(***************************************************************************)
\* The user opens a file: loadFile(path), suspended in openMarkdownFile.
LoadFile(t) ==
  \E path \in Files :
    /\ FreeSlot(t)
    /\ nOps < OpsBound
    /\ Spawn(t, "loadFile", "lf_open", path, Null, TRUE, TRUE)
    /\ UNCHANGED <<state, tree, page, hist, fixed, watched, errors, done>>

\* loadFile lines 64-67: what the resolved openMarkdownFile commits.
LoadFileCommit_KeepRoot(path) ==
  AppState("file", path, NormalizeBaseDir(BaseDirOf(path)), state.wikiRoot)
LoadFileCommit(path) ==
  AppState("file", path, NormalizeBaseDir(BaseDirOf(path)), Null)

\* openMarkdownFile resolved: lines 64-74, up to the await of the rendering.
LoadFileOpened_KeepTree(t) ==
  /\ tasks[t].pc = "lf_open"
  /\ state' = LoadFileCommit(tasks[t].path)
  /\ titleEl' = GetDisplayName(tasks[t].path)
  /\ breadcrumb' = [path |-> tasks[t].path, wikiRoot |-> Null]
  /\ contentEl' = tasks[t].path
  /\ tasks' = [tasks EXCEPT ![t].pc = "lf_render"]
  /\ UNCHANGED <<tree, hist, fixed, watched, errors, done, nOps>>
LoadFileOpened(t) ==
  /\ tasks[t].pc = "lf_open"
  /\ state' = LoadFileCommit(tasks[t].path)
  /\ treePanel' = [treePanel EXCEPT !.hidden = TRUE, !.controls = FALSE,
                                   !.items = {}, !.active = {}]
  /\ titleEl' = GetDisplayName(tasks[t].path)
  /\ breadcrumb' = [path |-> tasks[t].path, wikiRoot |-> Null]
  /\ contentEl' = tasks[t].path
  /\ tasks' = [tasks EXCEPT ![t].pc = "lf_render"]
  /\ UNCHANGED <<currentTree, currentActivePath, lastSelected, hist, fixed,
                 watched, errors, done, nOps>>

\* openMarkdownFile rejected: the catch block.
LoadFileOpenFailed(t) ==
  /\ tasks[t].pc = "lf_open"
  /\ Reject(t, "arquivo")
  /\ UNCHANGED <<state, tree, page, hist, fixed, watched, nOps>>

\* The rendering resolved: lines 76-81.
LoadFileRendered_AlwaysWatch(t) ==
  /\ tasks[t].pc = "lf_render"
  /\ tasks' = [tasks EXCEPT ![t].pc = "lf_watch"]
  /\ UNCHANGED <<state, tree, page, hist, fixed, watched, errors, done, nOps>>
LoadFileRendered_RecordsFirst(t) ==
  /\ tasks[t].pc = "lf_render"
  /\ RecordHistory(tasks[t].addToHistory, tasks[t].path, "file")
  /\ IF tasks[t].watch
       THEN /\ tasks' = [tasks EXCEPT ![t].pc = "lf_watch"]
            /\ UNCHANGED done
       ELSE Return(t, TRUE)
  /\ UNCHANGED <<state, tree, page, fixed, watched, errors, nOps>>
LoadFileRendered(t) ==
  /\ tasks[t].pc = "lf_render"
  /\ IF tasks[t].watch
       THEN /\ tasks' = [tasks EXCEPT ![t].pc = "lf_watch"]
            /\ UNCHANGED <<hist, done>>
       ELSE /\ RecordHistory(tasks[t].addToHistory, tasks[t].path, "file")
            /\ Return(t, TRUE)
  /\ UNCHANGED <<state, tree, page, fixed, watched, errors, nOps>>

\* watchPaths([path]) resolved: lines 77-81.
LoadFileWatched(t) ==
  /\ tasks[t].pc = "lf_watch"
  /\ watched' = watched \cup {tasks[t].path}
  /\ RecordHistory(tasks[t].addToHistory, tasks[t].path, "file")
  /\ Return(t, TRUE)
  /\ UNCHANGED <<state, tree, page, fixed, errors, nOps>>

\* watchPaths([path]) rejected: the catch block.
LoadFileWatchFailed(t) ==
  /\ tasks[t].pc = "lf_watch"
  /\ Reject(t, "arquivo")
  /\ UNCHANGED <<state, tree, page, hist, fixed, watched, nOps>>

(***************************************************************************)
(* openWikiNote(path, {addToHistory})                                      *)
(***************************************************************************)
\* The call of openWikiNote by operation op: line 94 returns at once without
\* a wikiRoot, otherwise the call suspends in openMarkdownFile.
CallOpenWikiNote_NoGuard(t, op, path, addToHistory) ==
  /\ Spawn(t, op, "wn_open", path, Null, FALSE, addToHistory)
  /\ UNCHANGED done
CallOpenWikiNote(t, op, path, addToHistory) ==
  IF state.wikiRoot = Null
    THEN ReturnAtOnce(op, TRUE)
    ELSE /\ Spawn(t, op, "wn_open", path, Null, FALSE, addToHistory)
         /\ UNCHANGED done

\* A click on a note of the tree: onNoteSelected(node.path).
OpenWikiNote(t) ==
  \E path \in treePanel.items :
    /\ ~treePanel.hidden
    /\ FreeSlot(t)
    /\ nOps < OpsBound
    /\ CallOpenWikiNote(t, "openWikiNote", path, TRUE)
    /\ UNCHANGED <<state, tree, page, hist, fixed, watched, errors>>

\* loadWiki lines 159-161: the title, then watchPaths([path]) is awaited.
WikiTail(t, wikiRoot) ==
  /\ titleEl' = RootName(wikiRoot)
  /\ tasks' = [tasks EXCEPT ![t].pc = "lw_watch"]
  /\ UNCHANGED done

\* What the user types in the search input: nothing, and "x".
TreeQueries == {<<>>, <<"x">>}

\* An input event of the search input or a change event of the toggle:
\* updateTree, main.ts lines 885-889.
TreeInput ==
  \E query \in TreeQueries, showHidden \in BOOLEAN :
    /\ ~treePanel.hidden
    /\ treePanel.controls
    /\ <<query, showHidden>> # <<treePanel.search, treePanel.showHidden>>
    /\ nOps < OpsBound
    /\ nOps' = nOps + 1
    /\ treePanel' = RenderFilteredItems(
                      [treePanel EXCEPT !.search = query,
                                        !.showHidden = showHidden],
                      currentTree, currentActivePath, query, showHidden)
    /\ UNCHANGED <<state, tasks, currentTree, currentActivePath, lastSelected,
                   page, hist, fixed, watched, errors, done>>

\* openMarkdownFile resolved: lines 99-102, up to the await of the rendering.
WikiNoteOpened(t) ==
  /\ tasks[t].pc = "wn_open"
  /\ state' = [state EXCEPT !.currentPath = tasks[t].path,
                            !.currentBaseDir = state.wikiRoot]
  /\ contentEl' = tasks[t].path
  /\ tasks' = [tasks EXCEPT ![t].pc = "wn_render"]
  /\ UNCHANGED <<tree, titleEl, breadcrumb, hist, fixed, watched, errors,
                 done, nOps>>

\* The rendering resolved: lines 103-110; inside loadWiki, on to line 159.
WikiNoteRendered(t) ==
  /\ tasks[t].pc = "wn_render"
  /\ treePanel' = RenderTreeSelection(treePanel, tasks[t].path)
  /\ breadcrumb' = [path |-> tasks[t].path, wikiRoot |-> state.wikiRoot]
  /\ RecordHistory(tasks[t].addToHistory, tasks[t].path, "wiki")
  /\ IF tasks[t].op = "loadWiki"
       THEN WikiTail(t, state.wikiRoot)
       ELSE Return(t, TRUE) /\ UNCHANGED titleEl
  /\ UNCHANGED <<state, currentTree, currentActivePath, lastSelected,
                 contentEl, fixed, watched, errors, nOps>>

\* openMarkdownFile rejected: the catch block; inside loadWiki the rejection
\* is caught at lines 147-151.
WikiNoteOpenFailed(t) ==
  /\ tasks[t].pc = "wn_open"
  /\ IF tasks[t].op = "loadWiki"
       THEN /\ errors' = errors \cup {"nota"}
            /\ state' = [state EXCEPT !.currentPath = Null]
            /\ contentEl' = NoContent
            /\ breadcrumb' = EmptyBreadcrumb
            /\ WikiTail(t, state.wikiRoot)
       ELSE /\ Reject(t, "nota")
            /\ UNCHANGED <<state, page>>
  /\ UNCHANGED <<tree, hist, fixed, watched, nOps>>

(***************************************************************************)
(* loadWiki(path)                                                          *)
(***************************************************************************)
\* The user opens a folder: loadWiki(path), suspended in openWikiFolder.
LoadWiki(t) ==
  \E root \in Folders :
    /\ FreeSlot(t)
    /\ nOps < OpsBound
    /\ Spawn(t, "loadWiki", "lw_folder", Null, root, FALSE, FALSE)
    /\ UNCHANGED <<state, tree, page, hist, fixed, watched, errors, done>>

\* loadWiki lines 124-126: what the resolved openWikiFolder commits.
LoadWikiCommit(root) ==
  [state EXCEPT !.mode = "wiki",
                !.wikiRoot = NormalizeBaseDir(root),
                !.currentBaseDir = NormalizeBaseDir(root)]

\* openWikiFolder resolved, with or without an initial note: lines 124-157,
\* up to the first await on the branch taken.  renderTree (main.ts 859-878)
\* keeps the tree and the active path, saves a present active path as the
\* last selected one and renders the items.
WikiFolderOpened(t) ==
  \E initial \in {Null, InitialNote(tasks[t].root)} :
    LET root == tasks[t].root
        st1 == LoadWikiCommit(root)
        saved == IF initial # Null THEN initial ELSE lastSelected
    IN
    /\ tasks[t].pc = "lw_folder"
    /\ currentTree' = root
    /\ currentActivePath' = initial
    /\ lastSelected' = saved
    /\ treePanel' = RenderFilteredItems([treePanel EXCEPT !.hidden = FALSE],
                                        root, initial, SearchValue(treePanel),
                                        HideToggleChecked(treePanel))
    /\ IF initial # Null
         THEN \* lines 133-134
              /\ state' = [st1 EXCEPT !.currentPath = initial]
              /\ contentEl' = initial
              /\ tasks' = [tasks EXCEPT ![t].pc = "lw_render", ![t].path = initial]
              /\ UNCHANGED <<titleEl, breadcrumb>>
         ELSE IF saved # Null
           THEN \* lines 143-146: openWikiNote(lastSelected) is awaited
                /\ state' = st1
                /\ tasks' = [tasks EXCEPT ![t].pc = "wn_open", ![t].path = saved,
                                          ![t].addToHistory = TRUE]
                /\ UNCHANGED <<titleEl, breadcrumb, contentEl>>
           ELSE \* lines 153-155, 159-161
                /\ state' = [st1 EXCEPT !.currentPath = Null]
                /\ contentEl' = NoContent
                /\ breadcrumb' = EmptyBreadcrumb
                /\ titleEl' = RootName(st1.wikiRoot)
                /\ tasks' = [tasks EXCEPT ![t].pc = "lw_watch"]
    /\ UNCHANGED <<hist, fixed, watched, errors, done, nOps>>

\* openWikiFolder rejected: the catch block.
WikiFolderFailed(t) ==
  /\ tasks[t].pc = "lw_folder"
  /\ Reject(t, "pasta")
  /\ UNCHANGED <<state, tree, page, hist, fixed, watched, nOps>>

\* The rendering of the initial note resolved: lines 135-141, 159-161.
WikiInitialRendered_Records(t) ==
  /\ tasks[t].pc = "lw_render"
  /\ treePanel' = RenderTreeSelection(treePanel, tasks[t].path)
  /\ breadcrumb' = [path |-> tasks[t].path, wikiRoot |-> state.wikiRoot]
  /\ RecordHistory(TRUE, tasks[t].path, "wiki")
  /\ WikiTail(t, state.wikiRoot)
  /\ UNCHANGED <<state, currentTree, currentActivePath, lastSelected,
                 contentEl, fixed, watched, errors, nOps>>
WikiInitialRendered(t) ==
  /\ tasks[t].pc = "lw_render"
  /\ treePanel' = RenderTreeSelection(treePanel, tasks[t].path)
  /\ breadcrumb' = [path |-> tasks[t].path, wikiRoot |-> state.wikiRoot]
  /\ WikiTail(t, state.wikiRoot)
  /\ UNCHANGED <<state, currentTree, currentActivePath, lastSelected,
                 contentEl, hist, fixed, watched, errors, nOps>>

\* watchPaths([path]) resolved: line 162.
WikiWatched(t) ==
  /\ tasks[t].pc = "lw_watch"
  /\ watched' = watched \cup {tasks[t].root}
  /\ Return(t, TRUE)
  /\ UNCHANGED <<state, tree, page, hist, fixed, errors, nOps>>

\* watchPaths([path]) rejected: the catch block.
WikiWatchFailed(t) ==
  /\ tasks[t].pc = "lw_watch"
  /\ Reject(t, "pasta")
  /\ UNCHANGED <<state, tree, page, hist, fixed, watched, nOps>>

(***************************************************************************)
(* navigateBack(), navigateForward()                                       *)
(***************************************************************************)
\* The addToHistory option the replay passes.
ReplayAddToHistory_Default == TRUE
ReplayAddToHistory == FALSE

\* Lines 175-179: the entry is replayed through loadFile or openWikiNote.
Replay(t, op, entry) ==
  IF entry.mode = "file"
    THEN /\ Spawn(t, op, "lf_open", entry.path, Null, TRUE, ReplayAddToHistory)
         /\ UNCHANGED done
    ELSE CallOpenWikiNote(t, op, entry.path, ReplayAddToHistory)

NavigateBack(t) ==
  LET r == GoBack(history, currentIndex) IN
  /\ FreeSlot(t)
  /\ nOps < OpsBound
  /\ IF r.ret = Absent
       THEN /\ ReturnAtOnce("navigateBack", FALSE)
            /\ UNCHANGED <<currentIndex, btn>>
       ELSE /\ currentIndex' = r.currentIndex
            /\ btn' = UpdateNavigationButtons(history, r.currentIndex)
            /\ Replay(t, "navigateBack", r.ret[1])
  /\ UNCHANGED <<history, state, tree, page, fixed, watched, errors>>

NavigateForward(t) ==
  LET r == GoForward(history, currentIndex) IN
  /\ FreeSlot(t)
  /\ nOps < OpsBound
  /\ IF r.ret = Absent
       THEN /\ ReturnAtOnce("navigateForward", FALSE)
            /\ UNCHANGED <<currentIndex, btn>>
       ELSE /\ currentIndex' = r.currentIndex
            /\ btn' = UpdateNavigationButtons(history, r.currentIndex)
            /\ Replay(t, "navigateForward", r.ret[1])
  /\ UNCHANGED <<history, state, tree, page, fixed, watched, errors>>

(***************************************************************************)
(* openRelativeLink(href)                                                  *)
(***************************************************************************)
\* The hrefs of the links in the documents: "%2E%2E/d/b" (that is "../d/b")
\* and the malformed "%".
Href_up == <<"%", "2", "E", "%", "2", "E", "/", "d", "/", "b">>
Href_bad == <<"%">>
Hrefs == {Href_up, Href_bad}

\* Line 198: the base directory the href is resolved against.
ActiveBaseDir ==
  IF state.mode = "wiki" THEN state.wikiRoot ELSE state.currentBaseDir

\* openRelativeLink(href), up to the first await of the operation it
\* delegates to; a URIError of decodeURIComponent rejects the call, and the
\* click handler (main.ts lines 467-470) shows the error.
OpenRelativeLinkWith(t, href) ==
  LET decoded == DecodeURIComponent(href)
      resolvedPath == ResolvePath(ActiveBaseDir, decoded)
  IN
  /\ contentEl # NoContent
  /\ FreeSlot(t)
  /\ nOps < OpsBound
  /\ IF ActiveBaseDir = Null
       THEN ReturnAtOnce("openRelativeLink", FALSE) /\ UNCHANGED errors
       ELSE IF decoded = URIError
         THEN /\ errors' = errors \cup CallerError("openRelativeLink")
              /\ nOps' = nOps + 1
              /\ done' = [op |-> "openRelativeLink", ok |-> FALSE,
                          found |-> TRUE, solo |-> AllIdle,
                          state0 |-> IF AllIdle THEN state ELSE InitialState]
              /\ tasks' = [u \in TaskIds |->
                   [tasks[u] EXCEPT !.solo = FALSE, !.state0 = InitialState]]
         ELSE /\ UNCHANGED errors
              /\ IF state.mode = "wiki"
                   THEN CallOpenWikiNote(t, "openRelativeLink", resolvedPath, TRUE)
                   ELSE /\ Spawn(t, "openRelativeLink", "lf_open", resolvedPath,
                                 Null, TRUE, TRUE)
                        /\ UNCHANGED done
  /\ UNCHANGED <<state, tree, page, hist, fixed, watched>>

\* A click on a link of the displayed document.
OpenRelativeLink(t) == \E href \in Hrefs : OpenRelativeLinkWith(t, href)

(***************************************************************************)
(* The "watch-change" listener                                             *)
(***************************************************************************)
\* main.ts lines 478-482.
ChangedCurrentPath_ExactOnly(currentPath, payload) ==
  \E k \in DOMAIN payload :
    NormalizeWatchedPath(currentPath) = NormalizeWatchedPath(payload[k])
ChangedCurrentPath(currentPath, payload) ==
  \E k \in DOMAIN payload :
    LET normalized == NormalizeWatchedPath(payload[k])
        current == NormalizeWatchedPath(currentPath)
    IN current = normalized \/ StartsWith(current, normalized \o <<"/">>)

\* The watcher reports what was registered, or something below it.
Reported(payload) ==
  \A k \in DOMAIN payload :
    \E w \in watched :
      LET p == ReplaceBackslash(payload[k]) IN
      p = w \/ StartsWith(p, NormalizeBaseDir(w) \o <<"/">>)

\* The listener called with event.payload = payload.
WatchChangeWith(t, payload) ==
  /\ Reported(payload)
  /\ FreeSlot(t)
  /\ nOps < OpsBound
  /\ IF state.currentPath = Null \/ Len(payload) = 0
        \/ ~ChangedCurrentPath(state.currentPath, payload)
       THEN ReturnAtOnce("watchReload", FALSE)
       ELSE IF state.mode = "file"
         THEN /\ Spawn(t, "watchReload", "lf_open", state.currentPath, Null,
                       FALSE, TRUE)
              /\ UNCHANGED done
         ELSE CallOpenWikiNote(t, "watchReload", state.currentPath, TRUE)
  /\ UNCHANGED <<state, tree, page, hist, fixed, watched, errors>>

WatchChange(t) == \E payload \in WatchPayloads : WatchChangeWith(t, payload)

(***************************************************************************)
(* Specifications                                                          *)
(***************************************************************************)
Next ==
  \/ \E t \in TaskIds :
       \/ LoadFile(t)
       \/ LoadFileOpened(t)
       \/ LoadFileOpenFailed(t)
       \/ LoadFileRendered(t)
       \/ LoadFileWatched(t)
       \/ LoadFileWatchFailed(t)
       \/ OpenWikiNote(t)
       \/ WikiNoteOpened(t)
       \/ WikiNoteRendered(t)
       \/ WikiNoteOpenFailed(t)
       \/ LoadWiki(t)
       \/ WikiFolderOpened(t)
       \/ WikiFolderFailed(t)
       \/ WikiInitialRendered(t)
       \/ WikiWatched(t)
       \/ WikiWatchFailed(t)
       \/ NavigateBack(t)
       \/ NavigateForward(t)
       \/ OpenRelativeLink(t)
       \/ WatchChange(t)
  \/ TreeInput

\* The application: operations started by the user and by the watcher, and
\* the completions of their awaits, interleaved.
Spec == Init /\ [][Next]_vars

\* The same application with one operation at a time: nothing is started
\* while another operation is in flight.
SpecAlone == InitAlone /\ [][Next]_vars

(***************************************************************************)
(* The NavigationHistory API called directly, as the unit tests do.        *)
(***************************************************************************)
HAddEntry(path, mode) ==
  LET r == AddEntry(history, currentIndex, path, mode) IN
  /\ history' = r.history
  /\ currentIndex' = r.currentIndex
  /\ call' = Call("addEntry", path, mode, Absent)
  /\ UNCHANGED cvars

HGoBack ==
  LET r == GoBack(history, currentIndex) IN
  /\ currentIndex' = r.currentIndex
  /\ call' = Call("goBack", Null, "none", r.ret)
  /\ UNCHANGED <<history, cvars>>

HGoForward ==
  LET r == GoForward(history, currentIndex) IN
  /\ currentIndex' = r.currentIndex
  /\ call' = Call("goForward", Null, "none", r.ret)
  /\ UNCHANGED <<history, cvars>>

HClear ==
  /\ history' = <<>>
  /\ currentIndex' = -1
  /\ call' = Call("clear", Null, "none", Absent)
  /\ UNCHANGED cvars

\* The paths and the length the history is driven with by SpecHistory.
HistPaths == {F_a, N_x}
MaxLen == 4

HRecord ==
  \E path \in HistPaths, mode \in Modes :
    /\ Len(AddEntry(history, currentIndex, path, mode).history) <= MaxLen
    /\ HAddEntry(path, mode)

HistoryNext == HRecord \/ HGoBack \/ HGoForward \/ HClear

SpecHistory == Init /\ [][HistoryNext]_vars

\* The same API driven to the size limit, with two entries to record.
CapEntries == {Entry(F_a, "file"), Entry(N_x, "wiki")}

CRecord == \E e \in CapEntries : HAddEntry(e.path, e.mode)

CapNext == CRecord \/ HGoBack \/ HGoForward \/ HClear

SpecHistoryCap == Init /\ [][CapNext]_vars

(***************************************************************************)
(* filterTree called directly, as the unit tests do.                       *)
(***************************************************************************)
\* The names of the nodes: "Ab", "b", "c"; the queries: "B", "ab", "c", "z",
\* which no name contains, the empty query and the blank ones " " and "  ".
Names == {<<"A", "b">>, <<"b">>, <<"c">>}
Queries ==
  {<<"B">>, <<"a", "b">>, <<"c">>, <<"z">>, <<>>, <<" ">>, <<" ", " ">>}

\* The trees: up to MaxKids leaves under a node, that node alone or under a
\* parent, alone or followed by a leaf.
MaxKids == 2
SeqsUpTo(S, n) == UNION {[1..m -> S] : m \in 0..n}
Leaves == {Node(n, <<>>) : n \in Names}
Mid == {Node(n, kids) : n \in Names, kids \in SeqsUpTo(Leaves, MaxKids)}
Top == Mid \cup {Node(n, <<m>>) : n \in Names, m \in Mid}
Trees ==
  {<<>>} \cup {<<a>> : a \in Top} \cup {<<a, b>> : a \in Top, b \in Leaves}

\* The arguments of a call that is about to be made.
Args(nodes, query) ==
  [fn |-> "args", tree |-> nodes, query |-> query, showHidden |-> FALSE,
   out |-> <<>>]

InitFilter ==
  /\ HistoryInit
  /\ ControllerInit
  /\ oneAtATime = FALSE
  /\ calc \in {Args(nodes, query) : nodes \in Trees, query \in Queries}

FilterTreeCall ==
  /\ calc.fn = "args"
  /\ calc' = [calc EXCEPT !.fn = "filterTree",
                          !.out = FilterTree(calc.tree, calc.query)]
  /\ UNCHANGED <<history, currentIndex, call, state, tasks, treePanel,
                 currentTree, currentActivePath, lastSelected, titleEl,
                 breadcrumb, contentEl, btn, watched, errors, done, nOps,
                 oneAtATime>>

FilterNext == FilterTreeCall

SpecFilter == InitFilter /\ [][FilterNext]_vars

(***************************************************************************)
(* The filters applied to a tree that holds hidden names.                  *)
(***************************************************************************)
\* The names: "notes", ".git", ".git/x", which starts with a pattern and
\* "/", and ".github", which starts with a pattern only.  The queries: none,
\* "git" and "n".
HiddenNames ==
  { <<"n", "o", "t", "e", "s">>,
    <<".", "g", "i", "t">>,
    <<".", "g", "i", "t", "/", "x">>,
    <<".", "g", "i", "t", "h", "u", "b">> }
HiddenQueries == {<<>>, <<"g", "i", "t">>, <<"n">>}

HiddenLeaves == {Node(n, <<>>) : n \in HiddenNames}
HiddenMid ==
  {Node(n, kids) : n \in HiddenNames, kids \in SeqsUpTo(HiddenLeaves, MaxKids)}
HiddenTop == HiddenMid \cup {Node(n, <<m>>) : n \in HiddenNames, m \in HiddenMid}
HiddenTrees ==
  {<<>>} \cup {<<a>> : a \in HiddenTop}
         \cup {<<a, b>> : a \in HiddenTop, b \in HiddenLeaves}

InitHidden ==
  /\ HistoryInit
  /\ ControllerInit
  /\ oneAtATime = FALSE
  /\ calc \in {[Args(nodes, query) EXCEPT !.showHidden = showHidden] :
                nodes \in HiddenTrees, query \in HiddenQueries,
                showHidden \in BOOLEAN}

\* The function fn is applied to the arguments held in calc.
Apply(fn, out) ==
  /\ calc.fn = "args"
  /\ calc' = [calc EXCEPT !.fn = fn, !.out = out]
  /\ UNCHANGED <<history, currentIndex, call, state, tasks, treePanel,
                 currentTree, currentActivePath, lastSelected, titleEl,
                 breadcrumb, contentEl, btn, watched, errors, done, nOps,
                 oneAtATime>>

FilterHiddenNodesCall ==
  Apply("filterHiddenNodes", FilterHiddenNodes(calc.tree, calc.showHidden))

RenderFilteredTreeCall ==
  Apply("renderFilteredTree",
        RenderFilteredTree(calc.tree, calc.query, calc.showHidden))

HiddenNext == FilterHiddenNodesCall \/ RenderFilteredTreeCall

SpecHidden == InitHidden /\ [][HiddenNext]_vars

(***************************************************************************)
(* Claims about NavigationHistory                                          *)
(***************************************************************************)

\* C2: after any sequence of addEntry, goBack, goForward and clear the cursor
\* is an integer in [-1, length-1], it is -1 exactly when the history is
\* empty, and getCurrent() is the entry at the cursor, or null when empty.
C2_CursorInRange ==
  /\ currentIndex \in Int
  /\ -1 <= currentIndex
  /\ currentIndex <= Len(history) - 1
  /\ (currentIndex = -1) <=> (history = <<>>)
  /\ GetCurrent(history, currentIndex) =
       IF history = <<>> THEN Absent ELSE Some(history[currentIndex + 1])

\* The history is full, the cursor was stepped back to the first entry and
\* goBack was refused there.
C2_Witness ==
  /\ Len(history) = MAX_HISTORY_SIZE
  /\ call.op = "goBack"
  /\ call.i0 = 0
  /\ currentIndex = 0

\* C3: addEntry called with the cursor before the tail discards every entry
\* after the cursor before appending: the entries up to the cursor are kept,
\* nothing else survives but the entry recorded, which is the last entry and
\* the current one, and canGoForward() is false.
C3_BranchTruncation ==
  (call.op = "addEntry" /\ call.i0 < Len(call.h0) - 1) =>
    /\ SubSeq(history, 1, call.i0 + 1) = SubSeq(call.h0, 1, call.i0 + 1)
    /\ Len(history) <= call.i0 + 2
    /\ history # <<>>
    /\ history[Len(history)] = Entry(call.path, call.mode)
    /\ currentIndex = Len(history) - 1
    /\ ~CanGoForward(history, currentIndex)

\* [f1, f2, f3] at cursor 2, goBack(); goBack(); addEntry(f4) gave [f1, f4].
C3_Witness ==
  /\ call.op = "addEntry"
  /\ call.h0 = <<Entry(F_a, "file"), Entry(N_x, "file"), Entry(F_a, "wiki")>>
  /\ call.i0 = 0
  /\ history = <<Entry(F_a, "file"), Entry(N_x, "wiki")>>
  /\ currentIndex = 1

\* C4: addEntry(path, mode) appends a new entry if and only if (path, mode)
\* differs, in path or in mode, from the entry at the cursor (an empty history
\* has no such entry); otherwise the entries up to the cursor are all that is
\* left.
C4_AppendsIffDiffers ==
  call.op = "addEntry" =>
    LET e == Entry(call.path, call.mode)
        upto == SubSeq(call.h0, 1, call.i0 + 1)
        differs == call.i0 < 0 \/ call.h0[call.i0 + 1] # e
        appended ==
          \/ history = Append(upto, e)
          \/ Len(upto) = MAX_HISTORY_SIZE /\ history = Tail(Append(upto, e))
    IN /\ differs <=> appended
       /\ ~differs => history = upto

\* The same path was recorded under the other mode and is a second entry.
C4_Witness ==
  /\ call.op = "addEntry"
  /\ Len(call.h0) = 1
  /\ history = <<Entry(F_a, "file"), Entry(F_a, "wiki")>>

C35_NoAdjacentTwins ==
  \A k \in 1..(Len(history) - 1) : history[k] # history[k + 1]

\* The full history was stepped back and the entry under the cursor was
\* recorded again: the tail was cut and nothing was pushed.
C35_Witness ==
  /\ call.op = "addEntry"
  /\ Len(call.h0) = MAX_HISTORY_SIZE
  /\ call.i0 = MAX_HISTORY_SIZE - 2
  /\ call.h0[call.i0 + 1] = Entry(call.path, call.mode)
  /\ Len(history) = MAX_HISTORY_SIZE - 1
  /\ currentIndex = call.i0

\* C6: goBack() with the cursor at or below 0 and goForward() with the cursor
\* at or past length-1 return null and change neither the entries nor the
\* cursor; otherwise they move the cursor by exactly one and return the entry
\* now at the cursor; neither ever changes the entries.
C6_BackForward ==
  /\ call.op = "goBack" =>
       /\ history = call.h0
       /\ IF call.i0 <= 0
            THEN call.ret = Absent /\ currentIndex = call.i0
            ELSE /\ currentIndex = call.i0 - 1
                 /\ call.ret = Some(history[currentIndex + 1])
  /\ call.op = "goForward" =>
       /\ history = call.h0
       /\ IF call.i0 >= Len(call.h0) - 1
            THEN call.ret = Absent /\ currentIndex = call.i0
            ELSE /\ currentIndex = call.i0 + 1
                 /\ call.ret = Some(history[currentIndex + 1])

\* goForward() was refused on the last of several entries.
C6_Witness ==
  /\ call.op = "goForward"
  /\ Len(history) >= 2
  /\ call.i0 = Len(history) - 1
  /\ call.ret = Absent

(***************************************************************************)
(* Keyboard shortcuts: a keydown event handled by handleKeyboardEvent with *)
(* the shortcuts that setupKeyboardShortcuts registers.                    *)
(***************************************************************************)
\* A KeyboardShortcut; an option that is not given is undefined (Absent).
Shortcut(key, ctrl, meta, alt, shift, handler) ==
  [key |-> key, ctrl |-> ctrl, meta |-> meta, alt |-> alt, shift |-> shift,
   handler |-> handler]

\* The shortcuts array after setupKeyboardShortcuts, main.ts lines 331-363.
Shortcuts ==
  << Shortcut("o", Some(TRUE), Some(TRUE), Absent, Absent, "btnOpen.click"),
     Shortcut("f", Some(TRUE), Some(TRUE), Absent, Absent, "treeSearch.focus"),
     Shortcut("ArrowLeft", Absent, Absent, Some(TRUE), Absent, "navigateBack"),
     Shortcut("ArrowRight", Absent, Absent, Some(TRUE), Absent,
              "navigateForward") >>

\* matchesShortcut(event, shortcut)
MatchesShortcut(event, shortcut) ==
  IF event.key # shortcut.key THEN FALSE
  ELSE IF shortcut.ctrl # Absent /\ event.ctrlKey # shortcut.ctrl[1] THEN FALSE
  ELSE IF shortcut.meta # Absent /\ event.metaKey # shortcut.meta[1] THEN FALSE
  ELSE IF shortcut.alt # Absent /\ event.altKey # shortcut.alt[1] THEN FALSE
  ELSE IF shortcut.shift # Absent /\ event.shiftKey # shortcut.shift[1]
    THEN FALSE
  ELSE TRUE

\* handleKeyboardEvent(event): the handler that is called, "none" without
\* one.  inInput is isInputElement(event.target).
RECURSIVE FirstMatch(_, _)
FirstMatch(event, k) ==
  IF k > Len(Shortcuts) THEN "none"
  ELSE IF MatchesShortcut(event, Shortcuts[k]) THEN Shortcuts[k].handler
  ELSE FirstMatch(event, k + 1)
HandleKeyboardEvent(isEnabled, event) ==
  IF ~isEnabled THEN "none"
  ELSE IF event.inInput /\ event.key # "Escape" THEN "none"
  ELSE FirstMatch(event, 1)

Keys == {"o", "f", "ArrowLeft", "ArrowRight", "p", "Escape"}
KeyboardEvents ==
  [key : Keys, ctrlKey : BOOLEAN, metaKey : BOOLEAN, altKey : BOOLEAN,
   shiftKey : BOOLEAN, inInput : BOOLEAN]

InitKeys ==
  /\ HistoryInit
  /\ ControllerInit
  /\ lastSelected = Null
  /\ oneAtATime = FALSE
  /\ calc \in {[fn |-> "args", isEnabled |-> isEnabled, event |-> event,
                 out |-> "none"] :
                isEnabled \in BOOLEAN, event \in KeyboardEvents}

HandleKeyboardEventCall ==
  Apply("handleKeyboardEvent", HandleKeyboardEvent(calc.isEnabled, calc.event))

KeysNext == HandleKeyboardEventCall

SpecKeys == InitKeys /\ [][KeysNext]_vars

(***************************************************************************)
(* Claims about the document loader                                        *)
(***************************************************************************)
NavOps == {"navigateBack", "navigateForward"}

\* Slot t takes a step of the operation it holds (every await moves pc).
Resumes(t) == tasks[t].pc # "idle" /\ tasks'[t].pc # tasks[t].pc

\* C1: in every reachable state, whatever the interleaving of the completions
\* of overlapping loadFile, loadWiki and openWikiNote: mode = "file" implies
\* wikiRoot is null, and mode = "wiki" implies wikiRoot is present and
\* currentBaseDir = wikiRoot.
C1_ModeAndRoot ==
  /\ state.mode = "file" => state.wikiRoot = Null
  /\ state.mode = "wiki" =>
       state.wikiRoot # Null /\ state.currentBaseDir = state.wikiRoot

\* An openWikiNote resumed after a loadFile, started later, had committed.
C1_Witness ==
  \E t \in TaskIds :
    /\ tasks[t].op = "openWikiNote"
    /\ tasks[t].pc = "wn_render"
    /\ state.mode = "file"
    /\ state.currentPath = tasks[t].path

\* C7: navigateBack() and navigateForward() never grow the history: the call
\* moves the cursor by one when there is an adjacent entry and leaves the
\* entries alone, and no step of the replayed loadFile/openWikiNote changes
\* the entries or the cursor.
C7_ReplayKeepsHistory ==
  [][ /\ \A t \in TaskIds : NavigateBack(t) =>
           /\ history' = history
           /\ currentIndex' = IF currentIndex > 0 THEN currentIndex - 1
                                                  ELSE currentIndex
      /\ \A t \in TaskIds : NavigateForward(t) =>
           /\ history' = history
           /\ currentIndex' = IF currentIndex < Len(history) - 1
                                THEN currentIndex + 1 ELSE currentIndex
      /\ \A t \in TaskIds : (tasks[t].op \in NavOps /\ Resumes(t)) =>
           /\ history' = history
           /\ currentIndex' = currentIndex
    ]_vars

\* navigateBack() replayed the first of two entries and returned.
C7_Witness ==
  /\ AllIdle
  /\ done.op = "navigateBack"
  /\ done.found
  /\ done.ok
  /\ Len(history) = 2
  /\ currentIndex = 0
  /\ state.currentPath = history[1].path

\* C8: when loadFile, openWikiNote or loadWiki rejects at any step, the
\* failure of the watch registration that follows the rendering included,
\* AppState is exactly what it was before the call.
C8_NoPartialCommit ==
  ( /\ AllIdle
    /\ done.op \in {"loadFile", "openWikiNote", "loadWiki"}
    /\ done.solo
    /\ ~done.ok ) => state = done.state0

\* C9: with no other operation in flight, after navigateBack() or
\* navigateForward() found an adjacent entry and returned without error,
\* currentPath is the path of the history's current entry and the tree
\* highlights that path, whatever mix of loadFile, loadWiki and openWikiNote
\* built the history.
C9_ReplayShowsCurrentEntry ==
  ( /\ AllIdle
    /\ done.op \in NavOps
    /\ done.solo
    /\ done.found
    /\ done.ok ) =>
      /\ GetCurrent(history, currentIndex) # Absent
      /\ state.currentPath = GetCurrent(history, currentIndex)[1].path
      /\ state.mode = "wiki" => treePanel.active = {state.currentPath}

\* C10: a reload the watch listener starts for the displayed document never
\* creates a history entry: no step of the reload makes the history longer.
C10_ReloadAddsNoEntry ==
  [][ \A t \in TaskIds :
        (tasks[t].op = "watchReload" /\ tasks[t].solo /\ Resumes(t)) =>
          Len(history') <= Len(history)
    ]_vars

\* C11: when a reload started by the watch listener fails, the error is
\* swallowed: no step of the reload surfaces an error notification.
C11_ReloadErrorSwallowed ==
  [][ \A t \in TaskIds :
        (tasks[t].op = "watchReload" /\ Resumes(t)) => errors' = errors
    ]_vars

\* C12: the watch listener starts a reload if and only if currentPath is
\* present and, backslashes turned into "/", some changed path c has
\* currentPath = c or currentPath starting with c followed by "/"; otherwise
\* nothing is requested.  The call itself changes neither AppState nor the
\* history.  The reload is loadFile (without watch registration) in file mode
\* and openWikiNote of the same path in wiki mode.
C12_ReloadIffChanged ==
  [][ \A t \in TaskIds, payload \in WatchPayloads :
        WatchChangeWith(t, payload) =>
          LET cur == ReplaceBackslash(state.currentPath)
              should ==
                /\ state.currentPath # Null
                /\ \E k \in DOMAIN payload :
                     LET c == ReplaceBackslash(payload[k]) IN
                     cur = c \/ StartsWith(cur, c \o <<"/">>)
          IN /\ state' = state
             /\ history' = history
             /\ currentIndex' = currentIndex
             /\ IF should
                  THEN /\ tasks'[t].op = "watchReload"
                       /\ tasks'[t].path = state.currentPath
                       /\ tasks'[t].pc =
                            IF state.mode = "file" THEN "lf_open" ELSE "wn_open"
                       /\ \A u \in TaskIds \ {t} : tasks'[u].pc = tasks[u].pc
                  ELSE /\ \A u \in TaskIds : tasks'[u].pc = tasks[u].pc
                       /\ done'.op = "watchReload"
                       /\ ~done'.found
    ]_vars

\* The open note is being reloaded after a report from the watcher.
C12_Witness ==
  \E t \in TaskIds :
    /\ tasks[t].op = "watchReload"
    /\ tasks[t].pc = "wn_open"
    /\ tasks[t].path = N_y
    /\ state.currentPath = N_y
    /\ state.mode = "wiki"

\* The operations that call openWikiNote, and the paths they call it with.
NoteCallers ==
  {"openWikiNote", "navigateBack", "navigateForward", "watchReload",
   "openRelativeLink"}

\* C14: openWikiNote(path) called while wikiRoot is null is a no-op: no
\* request to the renderer, no error, and AppState, the history, the tree and
\* the page are unchanged.
C14_NoteWithoutRootIsNoOp ==
  [][ \A t \in TaskIds, op \in NoteCallers, a \in BOOLEAN :
        \A path \in {N_x, N_y} :
          (state.wikiRoot = Null /\ CallOpenWikiNote(t, op, path, a)) =>
            /\ \A u \in TaskIds : tasks'[u].pc = tasks[u].pc
            /\ state' = state
            /\ history' = history
            /\ tree' = tree
            /\ page' = page
            /\ errors' = errors
            /\ watched' = watched
    ]_vars

\* navigateBack() replayed a note while a file was open, and returned.
C14_Witness ==
  /\ AllIdle
  /\ done.op = "navigateBack"
  /\ done.found
  /\ state.mode = "file"
  /\ state.wikiRoot = Null
  /\ GetCurrent(history, currentIndex) = Some(Entry(N_x, "wiki"))

Under(path, dir) ==
  LET d == NormalizeBaseDir(dir) IN
  StartsWith(ReplaceBackslash(path), IF d = <<"/">> THEN d ELSE d \o <<"/">>)

\* C15: in every reachable state where currentPath is present,
\* currentBaseDir is present and currentPath lies under it, the states in the
\* middle of a loadWiki included.
C15_PathUnderBaseDir ==
  state.currentPath # Null =>
    /\ state.currentBaseDir # Null
    /\ Under(state.currentPath, state.currentBaseDir)

\* C17: after a loadWiki that returned normally, currentPath is null or a
\* path under wikiRoot: a last selected note outside the folder is not
\* opened.
C17_LastSelectedWithinFolder ==
  ( /\ AllIdle
    /\ done.op = "loadWiki"
    /\ done.ok
    /\ done.solo ) =>
      \/ state.currentPath = Null
      \/ state.wikiRoot # Null /\ Under(state.currentPath, state.wikiRoot)

\* C16: every loadWiki whose openWikiFolder resolved goes on to register the
\* folder with the watcher, and the step that takes it there sets the title
\* to the name of the folder, whichever branch chose the note.
C16_TitleAndWatch ==
  [][ \A t \in TaskIds :
        ( /\ tasks[t].op = "loadWiki"
          /\ tasks[t].pc \in {"lw_folder", "lw_render", "wn_open", "wn_render"}
          /\ tasks'[t].pc \notin {tasks[t].pc, "idle"}
          /\ tasks'[t].pc \notin {"lw_render", "wn_open", "wn_render"} ) =>
            /\ tasks'[t].pc = "lw_watch"
            /\ titleEl' = RootName(NormalizeBaseDir(tasks[t].root))
    ]_vars

\* The step of slot t after which the code calls addEntry (loadFile lines
\* 76-78, openWikiNote lines 102-107), and the mode it records.
RecordsAt(t) ==
  /\ tasks[t].addToHistory
  /\ Resumes(t)
  /\ \/ tasks[t].pc = "wn_render"
     \/ tasks[t].pc = "lf_render" /\ ~tasks[t].watch
     \/ tasks[t].pc = "lf_watch" /\ done'.ok
EntryMode(t) == IF tasks[t].pc = "wn_render" THEN "wiki" ELSE "file"

\* C18: overlapping history-recording navigations append their entries in
\* completion order: each append is one addEntry on the history as it is when
\* the navigation completes, nothing else changes the entries, and when of
\* two overlapping navigations the one started first completes last, the
\* other's entry precedes its own, which is the current one.
C18_CompletionOrder ==
  [][ /\ \A t \in TaskIds : RecordsAt(t) =>
           [history |-> history', currentIndex |-> currentIndex'] =
             AddEntry(history, currentIndex, tasks[t].path, EntryMode(t))
      /\ history' # history => \E t \in TaskIds : RecordsAt(t)
      /\ ( /\ nOps = 2
           /\ RecordsAt(1)
           /\ ~tasks[1].solo
           /\ Idle(2)
           /\ Len(history) = 1
           /\ history[1] # Entry(tasks[1].path, EntryMode(1)) ) =>
             /\ history' = <<history[1], Entry(tasks[1].path, EntryMode(1))>>
             /\ currentIndex' = 1
    ]_vars

\* Two overlapping navigations have both completed and both are recorded.
C18_Witness ==
  /\ AllIdle
  /\ nOps = 2
  /\ ~done.solo
  /\ done.ok
  /\ Len(history) = 2
  /\ currentIndex = 1

\* C19: after two overlapping navigations that both record history have both
\* completed successfully and nothing is pending, the current entry of the
\* history has the path of currentPath, whatever the interleaving.
C19_OverlapConsistent ==
  ( /\ AllIdle
    /\ nOps = 2
    /\ ~done.solo
    /\ done.ok
    /\ errors = {}
    /\ Len(history) = 2 ) =>
      /\ GetCurrent(history, currentIndex) # Absent
      /\ GetCurrent(history, currentIndex)[1].path = state.currentPath

(***************************************************************************)
(* normalizeBaseDir and resolvePath called directly: a directory is        *)
(* normalised, and a relative reference is resolved against the result.    *)
(***************************************************************************)
\* The directories and the references: up to MaxSegs segments joined by "/",
\* and some that hold backslashes or more segments.
MaxSegs == 3
DirSegs == {<<>>, <<".">>, <<".", ".">>, <<"a">>}
RelSegs == {<<>>, <<".">>, <<".", ".">>, <<"d">>}
Joined(S, n) == {Join(segs) : segs \in UNION {[1..m -> S] : m \in 1..n}}
Dirs ==
  Joined(DirSegs, MaxSegs)
    \cup { <<"/", "a", "/", "b">>, <<"/", "a", "/", "b", "/">>,
           <<".", "/", "a", "/", "b">>, <<"\\", "a", "\\">>,
           <<"a", "\\", "b">>, <<"\\">> }
Relatives ==
  Joined(RelSegs, MaxSegs)
    \cup { <<".", ".", "\\", "d">>, <<"\\", "d">>, <<"d", "\\">>,
           <<"/", "d", "\\", "d">> }

PathArgs(dir, relative) ==
  [fn |-> "args", dir |-> dir, base |-> <<>>, relative |-> relative,
   out |-> <<>>]

InitPath ==
  /\ HistoryInit
  /\ ControllerInit
  /\ lastSelected = Null
  /\ oneAtATime = FALSE
  /\ calc \in {PathArgs(dir, relative) : dir \in Dirs, relative \in Relatives}

NormalizeBaseDirCall ==
  Apply("normalizeBaseDir", NormalizeBaseDir(calc.dir))

\* resolvePath(base, relative), base being what normalizeBaseDir returned.
ResolvePathCall ==
  /\ calc.fn = "normalizeBaseDir"
  /\ calc' = [calc EXCEPT !.fn = "resolvePath", !.base = calc.out,
                          !.out = ResolvePath(calc.out, calc.relative)]
  /\ UNCHANGED <<history, currentIndex, call, state, tasks, treePanel,
                 currentTree, currentActivePath, lastSelected, titleEl,
                 breadcrumb, contentEl, btn, watched, errors, done, nOps,
                 oneAtATime>>

PathNext == NormalizeBaseDirCall \/ ResolvePathCall

SpecPath == InitPath /\ [][PathNext]_vars

\* Slot t takes the step on which its operation rejects to its caller.
Rejects(t) == Resumes(t) /\ tasks'[t].pc = "idle" /\ ~done'.ok

\* C28: when the loadFile or openWikiNote that navigateBack() or
\* navigateForward() replays rejects, with no other operation in flight, the
\* rejection reaches the click handler, which reports it; the cursor is on
\* the entry that was being replayed, where the call had moved it, and stays
\* there; the entries stay as they are.
C28_ReplayFailureKeepsCursor ==
  [][ \A t \in TaskIds :
        (tasks[t].op \in NavOps /\ Rejects(t)) =>
          /\ history' = history
          /\ currentIndex' = currentIndex
          /\ GetCurrent(history, currentIndex) # Absent
          /\ GetCurrent(history, currentIndex)[1].path = tasks[t].path
          /\ done'.op = tasks[t].op
          /\ CallerError(tasks[t].op) # {}
          /\ CallerError(tasks[t].op) \subseteq errors'
    ]_vars

\* navigateBack() went from the second entry to the first and the replay of
\* the first failed: the cursor is on the first entry, both entries are there.
C28_Witness ==
  /\ AllIdle
  /\ done.op = "navigateBack"
  /\ done.found
  /\ ~done.ok
  /\ Len(history) = 2
  /\ currentIndex = 0
  /\ state.currentPath = history[2].path
  /\ "voltar" \in errors

\* C29: addEntry truncates before it looks for a duplicate.  When a
\* navigation records (path, mode) while the cursor is not on the last entry
\* and the entry at the cursor is (path, mode), nothing is appended and the
\* cursor stays, but every entry after the cursor is gone: a reload or a
\* re-opening of the current document after a step back loses the forward
\* history.
C29_TruncatesBeforeDuplicateCheck ==
  [][ \A t \in TaskIds :
        ( /\ RecordsAt(t)
          /\ currentIndex >= 0
          /\ currentIndex < Len(history) - 1
          /\ history[currentIndex + 1] = Entry(tasks[t].path, EntryMode(t)) ) =>
            /\ history' = SubSeq(history, 1, currentIndex + 1)
            /\ currentIndex' = currentIndex
            /\ Len(history') < Len(history)
            /\ ~CanGoForward(history', currentIndex')
            /\ btn'.forward
    ]_vars

\* Two files were opened, navigateBack() went to the first, and the watcher's
\* report of the first reloaded it: the second entry is gone.
C29_Witness ==
  /\ AllIdle
  /\ nOps = 4
  /\ errors = {}
  /\ watched = {F_a, F_b}
  /\ done.op = "watchReload"
  /\ done.ok
  /\ done.found
  /\ Len(history) = 1
  /\ currentIndex = 0
  /\ history[1].path = state.currentPath

\* Slot t takes the step on which the loadFile or openWikiNote it is in
\* fails (inside loadWiki the failure of openWikiNote is caught, and loadWiki
\* goes on), or the step on which it completes.
LoadFails(t) ==
  /\ tasks[t].pc \in {"lf_open", "lf_render", "lf_watch", "wn_open", "wn_render"}
  /\ \/ Rejects(t)
     \/ /\ tasks[t].op = "loadWiki"
        /\ tasks[t].pc = "wn_open"
        /\ tasks'[t].pc = "lw_watch"
LoadCompletes(t) ==
  /\ Resumes(t)
  /\ \/ tasks'[t].pc = "idle" /\ done'.ok
     \/ /\ tasks[t].op = "loadWiki"
        /\ tasks[t].pc = "wn_render"
        /\ tasks'[t].pc = "lw_watch"

\* C30: a loadFile or an openWikiNote that fails, at whichever step, has
\* recorded nothing: the step of the failure leaves the entries and the
\* cursor alone, shows an error and rejects to the caller (the click and
\* dialog handlers report it, loadWiki clears the page), and a step of the
\* call changes the entries or the cursor only when the call completes on it.
C30_FailureRecordsNothing ==
  [][ \A t \in TaskIds :
        /\ LoadFails(t) =>
             /\ history' = history
             /\ currentIndex' = currentIndex
             /\ btn' = btn
             /\ (IF tasks[t].pc \in {"wn_open", "wn_render"}
                   THEN "nota" ELSE "arquivo") \in errors'
             /\ IF tasks[t].op = "loadWiki"
                  THEN state'.currentPath = Null
                  ELSE /\ ~done'.ok
                       /\ done'.op = tasks[t].op
                       /\ CallerError(tasks[t].op) \subseteq errors'
        /\ ( /\ Resumes(t)
             /\ tasks[t].pc \in {"lf_open", "lf_render", "lf_watch", "wn_open",
                                  "wn_render"}
             /\ <<history', currentIndex'>> # <<history, currentIndex>> ) =>
               LoadCompletes(t)
    ]_vars

\* The second loadFile failed in the watch registration, after it had
\* committed its path: the history holds the first file only.
C30_Witness ==
  /\ AllIdle
  /\ done.op = "loadFile"
  /\ ~done.ok
  /\ "arquivo" \in errors
  /\ Len(history) = 1
  /\ currentIndex = 0
  /\ state.currentPath # Null
  /\ history[1].path # state.currentPath

\* C31: the reload that the watch listener starts in file mode is a loadFile
\* with watch = false: no step of it registers anything with the watcher and
\* it never waits for a registration.  Every other loadFile that completes
\* (opened by the user, by a link, by a replay) completes on the resolution
\* of watchPaths([path]), path registered, which is also the step on which
\* it records history when it does.
C31_ReloadDoesNotRegister ==
  [][ \A t \in TaskIds :
        /\ (tasks[t].op = "watchReload" /\ Resumes(t)) =>
             /\ watched' = watched
             /\ tasks[t].pc # "lf_watch"
             /\ tasks'[t].pc # "lf_watch"
        /\ ( /\ tasks[t].op # "watchReload"
             /\ tasks[t].pc \in {"lf_open", "lf_render", "lf_watch"}
             /\ LoadCompletes(t) ) =>
               /\ tasks[t].pc = "lf_watch"
               /\ tasks[t].path \in watched'
        /\ ( /\ tasks[t].op # "watchReload"
             /\ tasks[t].pc \in {"lf_open", "lf_render", "lf_watch"}
             /\ Resumes(t)
             /\ history' # history ) => tasks[t].path \in watched'
    ]_vars

\* A file was opened, the watcher reported it and the reload completed: the
\* registration of the first loadFile is the only one.
C31_Witness ==
  /\ AllIdle
  /\ nOps = 2
  /\ done.op = "watchReload"
  /\ done.ok
  /\ done.found
  /\ state.mode = "file"
  /\ watched = {state.currentPath}
  /\ errors = {}

\* C32: the steps of one loadFile come in this order: AppState committed,
\* tree panel hidden and emptied, title and breadcrumb set and the content
\* shown, all on the resumption after openMarkdownFile; then the watch
\* registration; then the history record.  The content of a loadFile is never
\* shown with the tree still there, nothing is registered or recorded before
\* the rendering has resolved, and nothing is recorded before the
\* registration.
C32_LoadFileOrder ==
  [][ \A t \in TaskIds :
        /\ (tasks[t].pc = "lf_open" /\ Resumes(t) /\ tasks'[t].pc # "idle") =>
             /\ tasks'[t].pc = "lf_render"
             /\ state'.mode = "file"
             /\ state'.currentPath = tasks[t].path
             /\ treePanel'.hidden
             /\ treePanel'.items = {}
             /\ titleEl' = GetDisplayName(tasks[t].path)
             /\ breadcrumb'.path = tasks[t].path
             /\ contentEl' = tasks[t].path
             /\ watched' = watched
             /\ history' = history
        /\ ( /\ tasks[t].pc \in {"lf_open", "lf_render", "lf_watch"}
             /\ Resumes(t)
             /\ contentEl' # contentEl ) =>
               treePanel'.hidden /\ treePanel'.items = {}
        /\ (tasks[t].pc = "lf_render" /\ Resumes(t)) =>
             /\ watched' = watched
             /\ tasks[t].watch =>
                  history' = history /\ tasks'[t].pc = "lf_watch"
        /\ (tasks[t].pc = "lf_watch" /\ Resumes(t)) =>
             /\ history' # history => tasks[t].path \in watched'
             /\ done'.ok => tasks[t].path \in watched'
    ]_vars

\* A loadFile alone has shown its content, with the tree hidden and empty,
\* and waits for the watch registration: nothing is registered or recorded.
C32_Witness ==
  \E t \in TaskIds :
    /\ tasks[t].op = "loadFile"
    /\ tasks[t].pc = "lf_watch"
    /\ tasks[t].solo
    /\ contentEl = tasks[t].path
    /\ treePanel.hidden
    /\ watched = {}
    /\ history = <<>>

\* C33: no step of an openWikiNote taken while mode = "file" changes AppState
\* or records a "wiki" entry, also when a loadFile has committed between the
\* call of openWikiNote and its resumption; and currentPath is never present
\* with currentBaseDir null.
C33_NoteKeepsFileMode ==
  [][ /\ \A t \in TaskIds :
           ( /\ tasks[t].pc \in {"wn_open", "wn_render"}
             /\ Resumes(t)
             /\ state.mode = "file" ) =>
               /\ state' = state
               /\ history' = history
      /\ state'.currentPath # Null => state'.currentBaseDir # Null
    ]_vars

C38_HighlightFollowsCurrentPath ==
  [][ ( /\ <<treePanel'.search, treePanel'.showHidden>> #
             <<treePanel.search, treePanel.showHidden>>
        /\ AllIdle
        /\ state.mode = "wiki"
        /\ treePanel.active = {p \in treePanel.items : p = state.currentPath} ) =>
          treePanel'.active = {p \in treePanel'.items : p = state.currentPath}
    ]_vars

\* C40: in every state with mode = "wiki" the tree panel holds the search
\* input and the toggle, also when a loadFile, which empties the panel, came
\* before the loadWiki; and the tree that loadWiki renders is the tree of the
\* folder filtered by the value of the search input and the state of the
\* toggle, which are what the user last set them to.
C40_ControlsSurvive ==
  [][ /\ state'.mode = "wiki" => treePanel'.controls
      /\ \A t \in TaskIds :
           (tasks[t].pc = "lw_folder" /\ tasks'[t].pc \notin {"lw_folder", "idle"}) =>
             treePanel'.items =
               PathsIn(RenderFilteredTree(WikiTree(tasks[t].root),
                                          treePanel.search, treePanel.showHidden))
    ]_vars

\* C36: after every step of the controller that changes the history or moves
\* its cursor, and in every quiescent state, the back button is disabled
\* exactly when canGoBack() is false and the forward button exactly when
\* canGoForward() is false.
C36_ButtonsFollowHistory ==
  /\ btn.back <=> ~CanGoBack(history, currentIndex)
  /\ btn.forward <=> ~CanGoForward(history, currentIndex)

\* Two documents were recorded and navigateBack moved the cursor to the
\* first: forward is enabled and back is disabled.
C36_Witness ==
  /\ Len(history) = 2
  /\ currentIndex = 0
  /\ ~btn.forward
  /\ btn.back

(***************************************************************************)
(* Claims about the tree filters                                           *)
(***************************************************************************)
\* name contains query, letter case apart.
MatchesQuery(name, query) ==
  \E i \in 0..(Len(name) - Len(query)) :
    \A j \in 1..Len(query) : Lower(name[i + j]) = Lower(query[j])

\* node, or a node below it, has a name that contains query.
RECURSIVE HasMatch(_, _)
HasMatch(node, query) ==
  \/ MatchesQuery(node.name, query)
  \/ \E k \in DOMAIN node.children : HasMatch(node.children[k], query)

\* The nodes with a match in their subtree, in their order, each with
\* the same of its children.
RECURSIVE Surviving(_, _)
Surviving(nodes, query) ==
  LET kept == SelectSeq(nodes, LAMBDA n : HasMatch(n, query)) IN
  [k \in 1..Len(kept) |->
     [kept[k] EXCEPT !.children = Surviving(kept[k].children, query)]]

\* C20: for a query that is not blank, filterTree returns, in their order,
\* exactly the nodes whose name contains the query, letter case apart, or
\* that have such a node below them, each with only its surviving children;
\* a node without a match in its subtree is dropped with its subtree, and the
\* result is empty when no node matches.
C20_FilterByName ==
  ( /\ calc.fn = "filterTree"
    /\ \E k \in DOMAIN calc.query : calc.query[k] # " " ) =>
      /\ calc.out = Surviving(calc.tree, calc.query)
      /\ Len(calc.out) <= Len(calc.tree)
      /\ calc.out = <<>> <=>
           \A k \in DOMAIN calc.tree : ~HasMatch(calc.tree[k], calc.query)

\* "B" was looked for in a tree whose only match, "Ab", is two levels down:
\* the ancestors are kept, each with the child on the way to it only.
C20_Witness ==
  /\ calc.fn = "filterTree"
  /\ calc.query = <<"B">>
  /\ calc.tree =
       <<Node(<<"c">>, <<Node(<<"c">>, <<Node(<<"A", "b">>, <<>>),
                                        Node(<<"c">>, <<>>)>>)>>),
         Node(<<"c">>, <<>>)>>
  /\ calc.out =
       <<Node(<<"c">>, <<Node(<<"c">>, <<Node(<<"A", "b">>, <<>>)>>)>>)>>

\* C21: filterTree returns its input tree unchanged, whatever the tree holds,
\* when the query is empty or made of white space only.
C21_BlankQueryKeepsTree ==
  ( /\ calc.fn = "filterTree"
    /\ \A k \in DOMAIN calc.query : calc.query[k] = " " ) =>
      calc.out = calc.tree

\* The query "  " was applied to a tree none of whose names holds a blank.
C21_Witness ==
  /\ calc.fn = "filterTree"
  /\ calc.query = <<" ", " ">>
  /\ calc.tree = <<Node(<<"c">>, <<Node(<<"b">>, <<>>)>>), Node(<<"b">>, <<>>)>>
  /\ calc.out = calc.tree

\* isDirectory(node), main.ts lines 584-586.
IsDirectory(node) == Len(node.children) > 0

\* Where the forest src has one node and the result out has one, the node
\* returned is that node: a directory is returned as a directory, and so on
\* down its children.
RECURSIVE KeepsDirectories(_, _)
KeepsDirectories(src, out) ==
  (Len(src) = 1 /\ Len(out) = 1) =>
    /\ IsDirectory(src[1]) => IsDirectory(out[1])
    /\ KeepsDirectories(src[1].children, out[1].children)

\* C39: filterTree keeps the classification of the nodes it retains: a node
\* that is a directory in the source tree (it has children) is never returned
\* with an empty children list, which createTreeItem would present as a file.
C39_DirectoryStaysDirectory ==
  calc.fn = "filterTree" => KeepsDirectories(calc.tree, calc.out)

\* The names of the nodes of a forest, at every depth.
RECURSIVE NamesIn(_)
NamesIn(nodes) ==
  UNION {{nodes[k].name} \cup NamesIn(nodes[k].children) : k \in DOMAIN nodes}

\* name, up to its first "/", is one of the hidden names.
RECURSIVE UpToSlash(_)
UpToSlash(name) ==
  IF Len(name) = 0 \/ name[1] = "/" THEN <<>>
  ELSE <<name[1]>> \o UpToSlash(Tail(name))
IsHiddenName(name) == UpToSlash(name) \in HIDE_PATTERNS

\* The nodes that are not hidden and have no hidden ancestor, in their order.
RECURSIVE Visible(_)
Visible(nodes) ==
  IF Len(nodes) = 0 THEN <<>>
  ELSE (IF IsHiddenName(nodes[1].name) THEN <<>>
        ELSE <<[nodes[1] EXCEPT !.children = Visible(nodes[1].children)]>>)
       \o Visible(Tail(nodes))

\* C22: filterHiddenNodes(tree, true) is tree; filterHiddenNodes(tree, false)
\* drops, at every depth, each node whose name is a hidden name or starts
\* with one followed by "/", with its subtree, and keeps the others in their
\* order.  A render without query therefore shows ".git" exactly when the
\* toggle is on.
C22_FilterHidden ==
  /\ calc.fn = "filterHiddenNodes" =>
        /\ calc.showHidden => calc.out = calc.tree
        /\ ~calc.showHidden =>
             /\ calc.out = Visible(calc.tree)
             /\ \A n \in NamesIn(calc.out) : ~IsHiddenName(n)
  /\ (calc.fn = "renderFilteredTree" /\ calc.query = <<>>) =>
        /\ calc.showHidden => calc.out = calc.tree
        /\ ~calc.showHidden =>
             /\ calc.out = Visible(calc.tree)
             /\ <<".", "g", "i", "t">> \notin NamesIn(calc.out)

\* The tree [notes [.git/x, .github], .git] was filtered with the toggle
\* off: "notes" is left, with ".github" only.
C22_Witness ==
  /\ calc.fn = "filterHiddenNodes"
  /\ ~calc.showHidden
  /\ calc.tree =
       <<Node(<<"n", "o", "t", "e", "s">>,
              <<Node(<<".", "g", "i", "t", "/", "x">>, <<>>),
                Node(<<".", "g", "i", "t", "h", "u", "b">>, <<>>)>>),
         Node(<<".", "g", "i", "t">>, <<>>)>>
  /\ calc.out =
       <<Node(<<"n", "o", "t", "e", "s">>,
              <<Node(<<".", "g", "i", "t", "h", "u", "b">>, <<>>)>>)>>

\* C23: the two filters commute: what renderFilteredTree shows, the name
\* filter applied first, is what the hidden filter applied first would give.
C23_FiltersCommute ==
  calc.fn = "renderFilteredTree" =>
    calc.out = FilterTree(FilterHiddenNodes(calc.tree, calc.showHidden),
                          calc.query)

(***************************************************************************)
(* Claims about the path utilities                                         *)
(***************************************************************************)
\* The segments of a path: what lies between its "/".
RECURSIVE Segments(_, _)
Segments(path, cur) ==
  IF Len(path) = 0 THEN <<cur>>
  ELSE IF path[1] = "/" THEN <<cur>> \o Segments(Tail(path), <<>>)
  ELSE Segments(Tail(path), Append(cur, path[1]))
HasSegment(path, seg) ==
  \E k \in DOMAIN Segments(path, <<>>) : Segments(path, <<>>)[k] = seg

\* C24: for a base that normalizeBaseDir returned and a relative reference
\* that does not start with a separator, resolvePath returns a path that
\* starts with "/" and has no "." and no ".." segment.
C24_ResolvedIsCanonical ==
  ( /\ calc.fn = "resolvePath"
    /\ ~(Len(calc.relative) > 0 /\ IsSep(calc.relative[1])) ) =>
      /\ StartsWith(calc.out, <<"/">>)
      /\ ~HasSegment(calc.out, <<".">>)
      /\ ~HasSegment(calc.out, <<".", ".">>)

\* The segments of a path that are not empty.
Parts(path) == SelectSeq(Segments(path, <<>>), LAMBDA seg : Len(seg) > 0)
IsName(seg) == Len(seg) > 0 /\ seg # <<".">> /\ seg # <<".", ".">>
\* n times "..", then the segments of rest.
Ups(n, rest) == [k \in 1..(n + Len(rest)) |->
                   IF k <= n THEN <<".", ".">> ELSE rest[k - n]]

\* C25: in resolvePath a ".." segment takes the last accumulated segment
\* away when there is one and does nothing at the root.  Against a base of n
\* names, a reference of m ".." (followed by a name d or not) resolves to the
\* first n - m names of the base (none when m >= n), followed by d when it is
\* there; so "/a/b" with ".." is "/a", "/a" with "../.." is "/", and "/a" with
\* "../../d" is "/d".
C25_DotDotPops ==
  calc.fn = "resolvePath" =>
    /\ \A m \in 1..Len(Parts(calc.relative)), rest \in {<<>>, <<<<"d">>>>} :
         ( /\ \A k \in DOMAIN Parts(calc.base) : IsName(Parts(calc.base)[k])
           /\ Segments(calc.relative, <<>>) = Ups(m, rest) ) =>
             LET n == Len(Parts(calc.base))
                 left == SubSeq(Parts(calc.base), 1, IF m >= n THEN 0 ELSE n - m)
             IN calc.out = <<"/">> \o Join(left \o rest)
    /\ (calc.base = <<"/", "a", "/", "b">> /\ calc.relative = <<".", ".">>)
          => calc.out = <<"/", "a">>
    /\ ( /\ calc.base = <<"/", "a">>
         /\ calc.relative = <<".", ".", "/", ".", ".">> )
          => calc.out = <<"/">>

\* "../../d" was resolved against "/a": one ".." more than the base is deep.
C25_Witness ==
  /\ calc.fn = "resolvePath"
  /\ calc.base = <<"/", "a">>
  /\ calc.relative = <<".", ".", "/", ".", ".", "/", "d">>
  /\ calc.out = <<"/", "d">>

\* C26: normalizeBaseDir returns, for every directory, the directory with
\* each backslash turned into "/" and one "/" taken from its end when it ends
\* with one, or "/" when nothing would be left; "" and "/" give "/", and
\* "/a/b/" gives "/a/b".
C26_NormalizeBase ==
  calc.fn = "normalizeBaseDir" =>
    LET n == Len(calc.dir)
        slashed(k) == IF calc.dir[k] = "\\" THEN "/" ELSE calc.dir[k]
        cut == IF n > 0 /\ slashed(n) = "/" THEN n - 1 ELSE n
    IN /\ cut = 0 => calc.out = <<"/">>
       /\ cut > 0 => /\ Len(calc.out) = cut
                     /\ \A k \in 1..cut : calc.out[k] = slashed(k)
       /\ \A k \in DOMAIN calc.out : calc.out[k] # "\\"
       /\ calc.dir = <<"/", "a", "/", "b", "/">> =>
            calc.out = <<"/", "a", "/", "b">>

\* "\\a\\" was normalised to "/a", and "" to "/".
C26_Witness ==
  /\ calc.fn = "normalizeBaseDir"
  /\ \/ calc.dir = <<"\\", "a", "\\">> /\ calc.out = <<"/", "a">>
     \/ calc.dir = <<>> /\ calc.out = <<"/">>

\* C27, as claimed: resolvePath(base, "") is base followed by "/" for every
\* base; a reference that is not empty never gives base followed by "/"; a
\* reference that starts with "/" is returned as it is, whatever the base.
C27_EmptyRelativeAsClaimed ==
  calc.fn = "resolvePath" =>
    /\ calc.relative = <<>> => calc.out = calc.base \o <<"/">>
    /\ calc.relative # <<>> => calc.out # calc.base \o <<"/">>
    /\ StartsWith(calc.relative, <<"/">>) => calc.out = calc.relative

\* C27, amended: resolvePath(base, "") is base followed by "/" for every
\* base that starts with "/" and goes on with names separated by one "/"
\* each, and is "/" for the base "/"; a reference that is not empty and has
\* no empty segment gives a result that does not end with "/", the root "/"
\* apart; a reference that starts with "/" is returned with its backslashes
\* turned into "/", so as it is when it holds none, whatever the base.
C27_EmptyRelative ==
  calc.fn = "resolvePath" =>
    LET segs == Segments(calc.base, <<>>)
        rooted == /\ Len(segs) >= 2
                  /\ segs[1] = <<>>
                  /\ \A k \in 2..Len(segs) :
                       Len(segs[k]) > 0 /\ segs[k] # <<".", ".">>
        rel == Segments(ReplaceBackslash(calc.relative), <<>>)
    IN /\ (calc.relative = <<>> /\ rooted) => calc.out = calc.base \o <<"/">>
       /\ (calc.relative = <<>> /\ calc.base = <<"/">>) => calc.out = <<"/">>
       /\ (\A k \in DOMAIN rel : Len(rel[k]) > 0) =>
            calc.out = <<"/">> \/ calc.out[Len(calc.out)] # "/"
       /\ StartsWith(calc.relative, <<"/">>) =>
            /\ calc.out = ReplaceBackslash(calc.relative)
            /\ (\A k \in DOMAIN calc.relative : calc.relative[k] # "\\") =>
                 calc.out = calc.relative

\* The empty reference was resolved against "/a/b".
C27_Witness ==
  /\ calc.fn = "resolvePath"
  /\ calc.base = <<"/", "a", "/", "b">>
  /\ calc.relative = <<>>
  /\ calc.out = <<"/", "a", "/", "b", "/">>

(***************************************************************************)
(* Claims about the keyboard shortcuts                                     *)
(***************************************************************************)
\* C34: with the keyboard navigation enabled and the focus outside an input,
\* the key "o" pressed with Ctrl alone, and pressed with Meta alone, calls
\* the handler of the open shortcut.
C34_CtrlOrMetaOpens ==
  ( /\ calc.fn = "handleKeyboardEvent"
    /\ calc.isEnabled
    /\ ~calc.event.inInput
    /\ calc.event.key = "o"
    /\ ~calc.event.altKey
    /\ ~calc.event.shiftKey
    /\ calc.event.ctrlKey # calc.event.metaKey ) =>
      calc.out = "btnOpen.click"

=============================================================================
